---- MODULE Spec2Model ----
(***************************************************************************)
(* Model of scripts/bump_version.py: the fenced-block rewriter             *)
(* (replace_fences, _process_fence_token), the dependency-version updater  *)
(* (_update_dependency_version and helpers) and replace_version_in_toml.   *)
(*                                                                         *)
(* Text is a sequence of atoms.  An atom is a one-character string (LF,    *)
(* CR, SP, a tilde, a quote ...; BT stands for the backtick) or an opaque  *)
(* word ("toml", "x").  Line ends are LF and CR LF.                        *)
(***************************************************************************)
EXTENDS Integers, Sequences, FiniteSets, TLC

VARIABLES
    document,     \* the parsed TOML document the updater works on
    dep_name,     \* the dependency name handed to the updater
    new_version,  \* the version text handed to the updater
    raised,       \* the exception the last updater call raised, "" for none
    doc_log,      \* the document as parsed and after each updater call
    tok,          \* _process_fence_token: the fence token handed in
    lines,        \* _process_fence_token: md_text.splitlines(keepends=True)
    lang,         \* fence language looked for
    replace_fn,   \* the transform, as data (see ApplyFn)
    tok_result,   \* _process_fence_token: locals at return
    md_text,      \* replace_fences: the Markdown text
    md_result,    \* replace_fences: outcome
    snippet,      \* replace_version_in_toml: the TOML text handed in
    toml_result,  \* replace_version_in_toml: outcome
    files,        \* the file system: the content of each path, Missing for none
    writer,       \* the process writing one file: its position and locals
    main_run,     \* main: its position and locals
    preflight     \* the patched pre-flight runner: configuration and calls

vars == <<document, dep_name, new_version, raised, doc_log,
          tok, lines, lang, replace_fn, tok_result, md_text, md_result,
          snippet, toml_result, files, writer, main_run, preflight>>

depVars == <<document, dep_name, new_version, raised, doc_log>>

fenceVars == <<tok, lines, lang, replace_fn, tok_result, md_text, md_result>>

tomlVars == <<snippet, toml_result>>

toolVars == <<files, writer, main_run, preflight>>

LF == "\n"
CR == "\r"
SP == " "
BT == "BACKTICK"
TL == "~"

\* ---------------------------------------------------------------- bounds

\* Longest trailing run of newline sequences given to an input body.
MaxRun == 2

\* Most Markdown blocks in an input text.
MaxBlocks == 3

\* Most calls of the updater on one document.
MaxCalls == 2

\* ------------------------------------------------------------ text helpers

Min(S) == CHOOSE m \in S : \A n \in S : m <= n

Drop(s, i) == SubSeq(s, i, Len(s))

RECURSIVE Concat(_)
Concat(ss) == IF ss = <<>> THEN <<>> ELSE Head(ss) \o Concat(Tail(ss))

\* s is a member of the language (\r?\n)*
RECURSIVE InCRLFStar(_)
InCRLFStar(s) ==
    IF s = <<>> THEN TRUE
    ELSE IF Head(s) = LF THEN InCRLFStar(Tail(s))
    ELSE IF Head(s) = CR /\ Len(s) >= 2 /\ s[2] = LF THEN InCRLFStar(Drop(s, 3))
    ELSE FALSE

\* s is a member of the language \r?\n+
InCROptLFPlus(s) ==
    LET t == IF s # <<>> /\ Head(s) = CR THEN Tail(s) ELSE s
    IN  t # <<>> /\ \A i \in 1..Len(t) : t[i] = LF

\* str.rstrip("\r\n"): drop every trailing CR and LF character.
RECURSIVE rstrip_crlf(_)
rstrip_crlf(s) ==
    IF s = <<>> THEN <<>>
    ELSE IF s[Len(s)] \in {CR, LF} THEN rstrip_crlf(SubSeq(s, 1, Len(s) - 1))
    ELSE s

\* str.splitlines(keepends=True) on texts whose line breaks are LF, CR LF, CR.
RECURSIVE splitlines(_)
splitlines(s) ==
    IF s = <<>> THEN <<>>
    ELSE LET ends == {i \in 1..Len(s) :
                        \/ s[i] = LF
                        \/ s[i] = CR /\ (i = Len(s) \/ s[i + 1] # LF)}
             e == IF ends = {} THEN Len(s) ELSE Min(ends)
         IN  <<SubSeq(s, 1, e)>> \o splitlines(Drop(s, e + 1))

\* str.find(sub): 0-based index of the first occurrence, -1 when absent.
find(s, sub) ==
    LET I == {i \in 1..(Len(s) - Len(sub) + 1) : SubSeq(s, i, i + Len(sub) - 1) = sub}
    IN  IF I = {} THEN -1 ELSE Min(I) - 1

\* ------------------------------------------------ tomlkit documents

\* A parsed item.  kind is "String", "Integer", "Bool", "Array",
\* "InlineTable", "Table" or "None" (a key that is absent); text is the Python value as
\* text; orig is the text written between the quotes (String._original) or
\* the raw literal; quote, comment and trail (the line end after the value)
\* are the formatting kept with the item; body holds a table's entries, each
\* [key, item], in document order.
Item(kind, text, orig, quote, comment, trail, body) ==
    [kind |-> kind, text |-> text, orig |-> orig, quote |-> quote,
     comment |-> comment, trail |-> trail, body |-> body]

None == Item("None", <<>>, <<>>, "", <<>>, <<>>, <<>>)

Entry(key, item) == [key |-> key, item |-> item]

DQ == "\""
SQ == "'"

IsMapping(item) == item.kind \in {"Table", "InlineTable"}

\* The keys of a container; blank and comment lines are entries of kind
\* "Whitespace" and have no key.
Keys(body) == {body[i].key : i \in {j \in 1..Len(body) : body[j].item.kind # "Whitespace"}}

\* Mapping.get(key): the item, None when the key is absent.
Get(body, key) ==
    IF key \in Keys(body)
    THEN body[CHOOSE i \in 1..Len(body) : body[i].key = key].item
    ELSE None

\* bool(item)
Truthy(item) ==
    CASE item.kind = "None"    -> FALSE
      [] item.kind = "String"  -> item.text # <<>>
      [] item.kind = "Integer" -> item.text # <<"0">>
      [] item.kind = "Bool"    -> item.text = <<"True">>
      [] item.kind = "Array"   -> item.text # <<"[]">>
      [] OTHER                 -> Keys(item.body) # {}

\* tomlkit.item(text): a fresh basic string.
NewString(text, trail) == Item("String", text, text, DQ, <<>>, trail, <<>>)

\* container[key] = text: an item at key is replaced in place and the new
\* item takes over its comment and line end; a new key is appended.
SetText(container, key, text) ==
    IF key \in Keys(container.body)
    THEN [container EXCEPT !.body =
            [i \in 1..Len(container.body) |->
                IF container.body[i].key = key
                THEN LET old == container.body[i].item
                     IN  Entry(key, [NewString(text, old.trail) EXCEPT !.comment = old.comment])
                ELSE container.body[i]]]
    ELSE [container EXCEPT !.body =
            Append(container.body,
                   Entry(key, NewString(text, IF container.kind = "Table" THEN <<LF>> ELSE <<>>)))]

SetItem(container, key, item) ==
    [container EXCEPT !.body =
        [i \in 1..Len(container.body) |->
            IF container.body[i].key = key THEN Entry(key, item) ELSE container.body[i]]]

\* setattr(s, "value", text) raises AttributeError with the pinned tomlkit
\* 0.13 (String.value has no setter), so s._original = text runs: the text
\* written on dumps changes and the str value of the item stays.
SetOriginal(s, text) == [s EXCEPT !.orig = text]

\* tomlkit.dumps
ValueText(item) ==
    CASE item.kind = "String" -> <<item.quote>> \o item.orig \o <<item.quote>>
      [] item.kind = "InlineTable" ->
            <<"{">> \o Concat([i \in 1..Len(item.body) |->
                          (IF i = 1 THEN <<>> ELSE <<",">>) \o
                          <<item.body[i].key, "=">> \o
                          (LET v == item.body[i].item
                           IN  IF v.kind = "String"
                               THEN <<v.quote>> \o v.orig \o <<v.quote>>
                               ELSE v.orig)]) \o <<"}">>
      [] OTHER -> item.orig

LineText(e) ==
    IF e.item.kind = "Whitespace" THEN e.item.orig
    ELSE <<e.key, "=">> \o ValueText(e.item) \o e.item.comment \o e.item.trail

TableText(path, t) ==
    <<"[">> \o path \o <<"]">> \o t.trail \o
    Concat([i \in 1..Len(t.body) |->
              IF t.body[i].item.kind = "Table" THEN <<>> ELSE LineText(t.body[i])]) \o
    Concat([i \in 1..Len(t.body) |->
              IF t.body[i].item.kind = "Table"
              THEN <<"[">> \o path \o <<".", t.body[i].key, "]">> \o t.body[i].item.trail \o
                   Concat([j \in 1..Len(t.body[i].item.body) |->
                             LineText(t.body[i].item.body[j])])
              ELSE <<>>])

dumps(doc) ==
    Concat([i \in 1..Len(doc.body) |->
              IF doc.body[i].item.kind = "Table"
              THEN TableText(<<doc.body[i].key>>, doc.body[i].item)
              ELSE LineText(doc.body[i])])

\* ------------------------------------------------------ tomlkit.parse

\* The words that are bare keys in the texts of the model.
BareKeys ==
    {"dependencies", "dev-dependencies", "build-dependencies", "package",
     "ortho_config", "ortho_config_macros", "foo", "bar", "version", "workspace",
     "features", "name", "members"}

Comments == {"#c"}

Whitespace(text) == Item("Whitespace", <<>>, text, "", <<>>, <<>>, <<>>)

\* The item of a literal that is no string; None for a word that is no value.
LiteralItem(a) ==
    CASE a \in {"0", "1", "5"} -> Item("Integer", <<a>>, <<a>>, "", <<>>, <<>>, <<>>)
      [] a = "true"  -> Item("Bool", <<"True">>, <<"true">>, "", <<>>, <<>>, <<>>)
      [] a = "false" -> Item("Bool", <<"False">>, <<"false">>, "", <<>>, <<>>, <<>>)
      [] a \in {"[a]", "[a,b]", "[]"} -> Item("Array", <<a>>, <<a>>, "", <<>>, <<>>, <<>>)
      [] OTHER -> None

NoValue == [ok |-> FALSE, item |-> None, rest |-> <<>>]

\* A string or a literal at the head of c; .rest is what follows it.
ParseScalar(c) ==
    IF c = <<>> THEN NoValue
    ELSE IF c[1] \in {DQ, SQ}
    THEN LET J == {j \in 2..Len(c) : c[j] = c[1]}
         IN  IF J = {} THEN NoValue
             ELSE LET j == Min(J)
                      text == SubSeq(c, 2, j - 1)
                  IN  [ok |-> TRUE,
                       item |-> Item("String", text, text, c[1], <<>>, <<>>, <<>>),
                       rest |-> Drop(c, j + 1)]
    ELSE IF LiteralItem(c[1]).kind # "None"
    THEN [ok |-> TRUE, item |-> LiteralItem(c[1]), rest |-> Drop(c, 2)]
    ELSE NoValue

\* The pairs key = scalar, separated by commas, between the braces of an
\* inline table.
RECURSIVE ParsePairs(_, _)
ParsePairs(c, body) ==
    IF Len(c) < 3 \/ c[1] \notin BareKeys \/ c[1] \in Keys(body) \/ c[2] # "="
    THEN [ok |-> FALSE, body |-> body]
    ELSE LET v == ParseScalar(Drop(c, 3))
             b == Append(body, Entry(c[1], v.item))
         IN  IF ~v.ok THEN [ok |-> FALSE, body |-> body]
             ELSE IF v.rest = <<>> THEN [ok |-> TRUE, body |-> b]
             ELSE IF v.rest[1] = "," THEN ParsePairs(Tail(v.rest), b)
             ELSE [ok |-> FALSE, body |-> body]

\* The value after the equals sign of a line.
ParseValue(c) ==
    IF c # <<>> /\ c[1] = "{"
    THEN LET J == {j \in 2..Len(c) : c[j] = "}"}
         IN  IF J = {} THEN NoValue
             ELSE LET j == Min(J)
                      p == IF j = 2 THEN [ok |-> TRUE, body |-> <<>>]
                           ELSE ParsePairs(SubSeq(c, 2, j - 1), <<>>)
                  IN  IF ~p.ok THEN NoValue
                      ELSE [ok |-> TRUE,
                            item |-> Item("InlineTable", <<>>, <<>>, "", <<>>, <<>>, p.body),
                            rest |-> Drop(c, j + 1)]
    ELSE ParseScalar(c)

\* The lines of s, each [content, eol] with eol LF, CR LF or, for a last
\* line that is not ended, nothing.
RECURSIVE TomlLines(_)
TomlLines(s) ==
    IF s = <<>> THEN <<>>
    ELSE LET I == {i \in 1..Len(s) : s[i] = LF}
         IN  IF I = {} THEN <<[content |-> s, eol |-> <<>>]>>
             ELSE LET i == Min(I)
                      cr == i > 1 /\ s[i - 1] = CR
                  IN  <<[content |-> SubSeq(s, 1, IF cr THEN i - 2 ELSE i - 1),
                         eol |-> IF cr THEN <<CR, LF>> ELSE <<LF>>]>>
                      \o TomlLines(Drop(s, i + 1))

\* body with entry e added at the place the parser is at: the document
\* itself (cur = 0), the table body[cur] (sub = 0) or its sub-table.
AddEntry(body, cur, sub, e) ==
    IF cur = 0 THEN Append(body, e)
    ELSE IF sub = 0 THEN [body EXCEPT ![cur].item.body = Append(@, e)]
    ELSE [body EXCEPT ![cur].item.body[sub].item.body = Append(@, e)]

KeysAt(body, cur, sub) ==
    IF cur = 0 THEN Keys(body)
    ELSE IF sub = 0 THEN Keys(body[cur].item.body)
    ELSE Keys(body[cur].item.body[sub].item.body)

\* One line after another: a blank or comment line, a table header [t] or
\* [t.k] under the table t just before it, or key = value.  Anything else
\* (a bare word, a lone CR, a key or table given twice) is a parse error.
RECURSIVE ParseLines(_, _, _)
ParseLines(ls, i, st) ==
    IF i > Len(ls) \/ ~st.ok THEN st
    ELSE LET c == ls[i].content
             eol == ls[i].eol
             fail == [st EXCEPT !.ok = FALSE]
         IN  CASE c = <<>> \/ (Len(c) = 1 /\ c[1] \in Comments) ->
                    ParseLines(ls, i + 1,
                        [st EXCEPT !.body = AddEntry(st.body, st.cur, st.sub,
                                                     Entry("", Whitespace(c \o eol)))])
               [] c # <<>> /\ c[1] = "[" ->
                    IF Len(c) = 3 /\ c[2] \in BareKeys /\ c[3] = "]"
                       /\ c[2] \notin Keys(st.body)
                    THEN ParseLines(ls, i + 1,
                            [ok |-> TRUE,
                             body |-> Append(st.body, Entry(c[2], Item("Table", <<>>, <<>>, "", <<>>, eol, <<>>))),
                             cur |-> Len(st.body) + 1, sub |-> 0])
                    ELSE IF Len(c) = 5 /\ c[3] = "." /\ c[4] \in BareKeys /\ c[5] = "]"
                            /\ st.cur > 0 /\ st.body[st.cur].key = c[2]
                            /\ c[4] \notin Keys(st.body[st.cur].item.body)
                    THEN ParseLines(ls, i + 1,
                            [ok |-> TRUE,
                             body |-> AddEntry(st.body, st.cur, 0,
                                               Entry(c[4], Item("Table", <<>>, <<>>, "", <<>>, eol, <<>>))),
                             cur |-> st.cur,
                             sub |-> Len(st.body[st.cur].item.body) + 1])
                    ELSE fail
               [] Len(c) >= 3 /\ c[1] \in BareKeys /\ c[2] = "=" ->
                    LET v == ParseValue(Drop(c, 3))
                    IN  IF v.ok /\ c[1] \notin KeysAt(st.body, st.cur, st.sub)
                           /\ (v.rest = <<>> \/ (Len(v.rest) = 1 /\ v.rest[1] \in Comments))
                        THEN ParseLines(ls, i + 1,
                                [st EXCEPT !.body =
                                    AddEntry(st.body, st.cur, st.sub,
                                             Entry(c[1], [v.item EXCEPT !.comment = v.rest,
                                                                        !.trail = eol]))])
                        ELSE fail
               [] OTHER -> fail

\* tomlkit.parse(text): .raised is "TOMLKitError" for a text that is no
\* TOML document, and .doc is the document otherwise.
parse(text) ==
    LET st == ParseLines(TomlLines(text), 1, [ok |-> TRUE, body |-> <<>>, cur |-> 0, sub |-> 0])
    IN  IF st.ok THEN [raised |-> "", doc |-> [body |-> st.body]]
        ELSE [raised |-> "TOMLKitError", doc |-> [body |-> <<>>]]

\* ------------------------------------------ the dependency updater

Tables == <<"dependencies", "dev-dependencies", "build-dependencies">>

\* str(entry or "") for an item that is not a String
PyStr(item) ==
    IF ~Truthy(item) THEN <<>>
    ELSE IF IsMapping(item) THEN <<"{">> ELSE item.text

_extract_version_prefix_any_first(entry) ==
    LET e == IF IsMapping(entry) THEN Get(entry.body, "version") ELSE entry
        text == IF e.kind = "String" THEN e.text ELSE PyStr(e)
    IN  IF text # <<>> THEN <<text[1]>> ELSE <<>>

_extract_version_prefix(entry) ==
    LET e == IF IsMapping(entry) THEN Get(entry.body, "version") ELSE entry
        text == IF e.kind = "String" THEN e.text ELSE PyStr(e)
    IN  IF text # <<>> /\ text[1] \in {"^", "~"} THEN <<text[1]>> ELSE <<>>

_update_dict_dependency_no_skip(entry, version) ==
    LET prefix == _extract_version_prefix(entry)
        existing == Get(entry.body, "version")
    IN  IF existing.kind = "String"
        THEN SetItem(entry, "version", SetOriginal(existing, prefix \o version))
        ELSE SetText(entry, "version", prefix \o version)

_update_dict_dependency(entry, version) ==
    IF Truthy(Get(entry.body, "workspace")) THEN entry
    ELSE LET prefix == _extract_version_prefix(entry)
             existing == Get(entry.body, "version")
         IN  IF existing.kind = "String"
             THEN SetItem(entry, "version", SetOriginal(existing, prefix \o version))
             ELSE SetText(entry, "version", prefix \o version)

_update_string_dependency_wholesale(deps, dependency, entry, version) ==
    SetText(deps, dependency, _extract_version_prefix(entry) \o version)

_update_string_dependency(deps, dependency, entry, version) ==
    LET prefix == _extract_version_prefix(entry)
    IN  IF entry.kind = "String"
        THEN SetItem(deps, dependency, SetOriginal(entry, prefix \o version))
        ELSE SetText(deps, dependency, prefix \o version)

\* deps[dependency], then the update by kind of entry.  .raised names the
\* exception of a failed subscript; .deps is the table afterwards.
_update_dependency_in_table(deps, dependency, version) ==
    IF ~IsMapping(deps) THEN [raised |-> "TypeError", deps |-> deps]
    ELSE IF dependency \notin Keys(deps.body) THEN [raised |-> "KeyError", deps |-> deps]
    ELSE LET entry == Get(deps.body, dependency)
         IN  [raised |-> "",
              deps |-> IF IsMapping(entry)
                       THEN SetItem(deps, dependency, _update_dict_dependency(entry, version))
                       ELSE _update_string_dependency(deps, dependency, entry, version)]

\* dependency in deps: key membership for a table, substring for a string,
\* element membership for an array (no array of the model holds a key
\* name), TypeError for a value that is no container.
Contains(deps, dependency) ==
    CASE IsMapping(deps)      -> [raised |-> "", value |-> dependency \in Keys(deps.body)]
      [] deps.kind = "String" -> [raised |-> "", value |-> find(deps.text, <<dependency>>) >= 0]
      [] deps.kind = "Array"  -> [raised |-> "", value |-> FALSE]
      [] OTHER                -> [raised |-> "TypeError", value |-> FALSE]

\* The loop of _update_dependency_version from table k on.
RECURSIVE DependencyLoopNoMembership(_, _, _, _)
DependencyLoopNoMembership(doc, dependency, version, k) ==
    IF k > Len(Tables) THEN [raised |-> "", doc |-> doc]
    ELSE LET deps == Get(doc.body, Tables[k])
         IN  IF ~Truthy(deps)
             THEN DependencyLoopNoMembership(doc, dependency, version, k + 1)
             ELSE LET r == _update_dependency_in_table(deps, dependency, version)
                  IN  IF r.raised # "" THEN [raised |-> r.raised, doc |-> doc]
                      ELSE DependencyLoopNoMembership(SetItem(doc, Tables[k], r.deps),
                                                      dependency, version, k + 1)

RECURSIVE DependencyLoop(_, _, _, _)
DependencyLoop(doc, dependency, version, k) ==
    IF k > Len(Tables) THEN [raised |-> "", doc |-> doc]
    ELSE LET deps == Get(doc.body, Tables[k])
         IN  IF ~Truthy(deps) THEN DependencyLoop(doc, dependency, version, k + 1)
             ELSE LET c == Contains(deps, dependency)
                  IN  IF c.raised # "" THEN [raised |-> c.raised, doc |-> doc]
                      ELSE IF ~c.value THEN DependencyLoop(doc, dependency, version, k + 1)
                      ELSE LET r == _update_dependency_in_table(deps, dependency, version)
                           IN  IF r.raised # "" THEN [raised |-> r.raised, doc |-> doc]
                               ELSE DependencyLoop(SetItem(doc, Tables[k], r.deps),
                                                   dependency, version, k + 1)

_update_dependency_version_no_membership(doc, dependency, version) ==
    DependencyLoopNoMembership(doc, dependency, version, 1)

\* .raised names the exception when the call raises; .doc is the document
\* as the call leaves it.
_update_dependency_version(doc, dependency, version) ==
    DependencyLoop(doc, dependency, version, 1)

\* ----------------------------------------------- _update_package_version

\* table["version"] = version: TypeError when table is no mapping (a string,
\* a number, a boolean or an array takes no string key).
SetVersionField(table, version) ==
    IF IsMapping(table)
    THEN [raised |-> "", item |-> SetText(table, "version", version)]
    ELSE [raised |-> "TypeError", item |-> table]

\* .raised names the exception when the call raises; .doc is the document
\* as the call leaves it.
_update_package_version(doc, version) ==
    LET workspace == Get(doc.body, "workspace")
        c == IF "workspace" \in Keys(doc.body)
             THEN Contains(workspace, "package")
             ELSE [raised |-> "", value |-> FALSE]
    IN  IF c.raised # "" THEN [raised |-> c.raised, doc |-> doc]
        ELSE IF c.value
        THEN IF ~IsMapping(workspace) THEN [raised |-> "TypeError", doc |-> doc]
             ELSE LET r == SetVersionField(Get(workspace.body, "package"), version)
                  IN  [raised |-> r.raised,
                       doc |-> IF r.raised = ""
                               THEN SetItem(doc, "workspace",
                                            SetItem(workspace, "package", r.item))
                               ELSE doc]
        ELSE IF "package" \in Keys(doc.body)
        THEN LET r == SetVersionField(Get(doc.body, "package"), version)
             IN  [raised |-> r.raised,
                  doc |-> IF r.raised = "" THEN SetItem(doc, "package", r.item) ELSE doc]
        ELSE [raised |-> "", doc |-> doc]

\* --------------------------------------------- replace_version_in_toml

\* match = re.search(r"((?:\r?\n)*)$", snippet); newline_suffix = match.group(1):
\* the leftmost start from which the rest of the snippet is (\r?\n)*.
NewlineSuffix(s) ==
    LET I == {i \in 1..(Len(s) + 1) : InCRLFStar(Drop(s, i))}
    IN  Drop(s, Min(I))

\* The loop over the three tables from table k on; found is dependency_found.
RECURSIVE TomlLoop(_, _, _, _)
TomlLoop(doc, version, k, found) ==
    IF k > Len(Tables) THEN [raised |-> "", doc |-> doc, found |-> found]
    ELSE LET deps == Get(doc.body, Tables[k])
         IN  IF ~Truthy(deps) THEN TomlLoop(doc, version, k + 1, found)
             ELSE LET c == Contains(deps, "ortho_config")
                  IN  IF c.raised # "" THEN [raised |-> c.raised, doc |-> doc, found |-> found]
                      ELSE IF ~c.value THEN TomlLoop(doc, version, k + 1, found)
                      ELSE LET r == _update_dependency_in_table(deps, "ortho_config", version)
                           IN  IF r.raised # ""
                               THEN [raised |-> r.raised, doc |-> doc, found |-> TRUE]
                               ELSE TomlLoop(SetItem(doc, Tables[k], r.deps),
                                             version, k + 1, TRUE)

\* A parse error is returned as the snippet itself.
replace_version_in_toml_parse_raises(s, version) ==
    LET p == parse(s)
    IN  IF p.raised # "" THEN [raised |-> p.raised, text |-> <<>>]
        ELSE LET newline_suffix == NewlineSuffix(s)
                 r == TomlLoop(p.doc, version, 1, FALSE)
             IN  IF r.raised # "" THEN [raised |-> r.raised, text |-> <<>>]
                 ELSE IF ~r.found THEN [raised |-> "", text |-> s]
                 ELSE [raised |-> "",
                       text |-> rstrip_crlf(dumps(r.doc)) \o newline_suffix]

\* .raised names the exception when the call raises; .text is the text
\* returned otherwise.
replace_version_in_toml(s, version) ==
    LET p == parse(s)
    IN  IF p.raised # "" THEN [raised |-> "", text |-> s]
        ELSE LET newline_suffix == NewlineSuffix(s)
                 r == TomlLoop(p.doc, version, 1, FALSE)
             IN  IF r.raised # "" THEN [raised |-> r.raised, text |-> <<>>]
                 ELSE IF ~r.found THEN [raised |-> "", text |-> s]
                 ELSE [raised |-> "",
                       text |-> rstrip_crlf(dumps(r.doc)) \o newline_suffix]

\* ------------------------------------------------------- the transform

\* replace_fn as data: "identity" returns the body, "replace" is
\* body.replace("x", "y"), "toml" is
\* lambda body: replace_version_in_toml(body, version) with .result the
\* version, "const" returns .result whatever the body.
\* .raised names the exception replace_fn(body) raises, .text is what it
\* returns otherwise.
ApplyFn(f, body) ==
    CASE f.kind = "identity" -> [raised |-> "", text |-> body]
      [] f.kind = "replace"  ->
            [raised |-> "",
             text |-> [i \in 1..Len(body) |-> IF body[i] = "x" THEN "y" ELSE body[i]]]
      [] f.kind = "toml"     -> replace_version_in_toml(body, f.result)
      [] OTHER               -> [raised |-> "", text |-> f.result]

\* ------------------------------------------------- _process_fence_token

\* m = re.search(r"(\r?\n+)$", original_body); suffix = m.group(1) if m else "":
\* the search takes the leftmost start from which the rest of the body is
\* \r?\n+, and there is none when the body does not end in LF.
FenceSuffix(original_body) ==
    LET I == {i \in 1..Len(original_body) : InCROptLFPlus(Drop(original_body, i))}
    IN  IF I = {} THEN <<>> ELSE Drop(original_body, Min(I))

\* new_body.rstrip("\r\n") + suffix
RewriteBody(original_body, new_body) ==
    rstrip_crlf(new_body) \o FenceSuffix(original_body)

_extract_fence_indent_none(opening_line, fence_marker) == <<>>

_extract_fence_indent(opening_line, fence_marker) ==
    LET pos == find(opening_line, fence_marker)
    IN  IF pos < 0 THEN <<>> ELSE SubSeq(opening_line, 1, pos)

\* The locals of _process_fence_token at its return, replaced being the
\* outcome of replace_fn(original_body); .text is the value returned and
\* .raised the exception of replace_fn when it raised.
FenceTokenLocals(t, ls, lg, replaced) ==
    LET start == t.map[1]
        fence_marker == IF t.markup # <<>> THEN t.markup ELSE <<BT, BT, BT>>
        indent == _extract_fence_indent(ls[start + 1], fence_marker)
        info == IF t.info # <<>> THEN t.info ELSE <<lg>>
        original_body == t.content
        new_body == RewriteBody(original_body, replaced.text)
        body_lines == splitlines(new_body)
        indented == Concat([i \in 1..Len(body_lines) |-> indent \o body_lines[i]])
    IN  [raised |-> replaced.raised,
         indent |-> indent,
         new_body |-> new_body,
         text |-> indent \o fence_marker \o info \o <<LF>>
                  \o indented \o indent \o fence_marker \o <<LF>>]

_process_fence_token(t, ls, lg, f) == FenceTokenLocals(t, ls, lg, ApplyFn(f, t.content))

\* ------------------------------------- MarkdownIt("commonmark").parse

\* The tokenizer's normalize rule: CR LF and CR become LF.
RECURSIVE normalize(_)
normalize(s) ==
    IF s = <<>> THEN <<>>
    ELSE IF Head(s) = CR
         THEN <<LF>> \o normalize(IF Len(s) >= 2 /\ s[2] = LF THEN Drop(s, 3) ELSE Tail(s))
    ELSE <<Head(s)>> \o normalize(Tail(s))

\* Number of leading atoms of s equal to c.
CountRun(s, c) ==
    LET I == {i \in 1..Len(s) : s[i] # c}
    IN  IF I = {} THEN Len(s) ELSE Min(I) - 1

LineContent(l) == IF l # <<>> /\ l[Len(l)] = LF THEN SubSeq(l, 1, Len(l) - 1) ELSE l

IsBlank(l) == \A i \in 1..Len(LineContent(l)) : l[i] = SP

\* The fence rule on an opening line: at most three spaces, three or more
\* of one fence character, then the info string (no backtick in the info of
\* a backtick fence).
FenceOpening(l) ==
    LET c == LineContent(l)
        ind == CountRun(c, SP)
        rest == Drop(c, ind + 1)
        marker == IF rest = <<>> THEN "" ELSE Head(rest)
        length == CountRun(rest, marker)
        params == Drop(rest, length + 1)
    IN  [ok |-> /\ ind <= 3
                /\ marker \in {BT, TL}
                /\ length >= 3
                /\ (marker = BT => \A i \in 1..Len(params) : params[i] # BT),
         indent |-> ind,
         marker |-> marker,
         length |-> length,
         markup |-> SubSeq(rest, 1, length),
         params |-> params]

\* A closing fence: at most three spaces, the opening's character at least
\* as many times, then spaces only.
FenceClosing(l, marker, length) ==
    LET c == LineContent(l)
        ind == CountRun(c, SP)
        rest == Drop(c, ind + 1)
        run == CountRun(rest, marker)
        tail == Drop(rest, run + 1)
    IN  /\ ind <= 3
        /\ run >= length
        /\ \A i \in 1..Len(tail) : tail[i] = SP

\* StateBlock.getLines(begin, end, indent, True): each line of [begin, end)
\* with up to indent leading spaces removed.
getLines(ls, begin, end, indent) ==
    Concat([k \in 1..(end - begin) |->
              LET l == ls[begin + k]
                  cut == IF CountRun(l, SP) < indent THEN CountRun(l, SP) ELSE indent
              IN  Drop(l, cut + 1)])

Token(type, info, markup, start, end, content) ==
    [type |-> type, info |-> info, markup |-> markup, map |-> <<start, end>>,
     content |-> content]

\* The block tokens of lines ls from 0-based line i on: fences and
\* paragraphs (a fence may interrupt a paragraph); blank lines give none.
RECURSIVE ParseBlocks(_, _)
ParseBlocks(ls, i) ==
    IF i >= Len(ls) THEN <<>>
    ELSE IF IsBlank(ls[i + 1]) THEN ParseBlocks(ls, i + 1)
    ELSE LET o == FenceOpening(ls[i + 1])
         IN  IF o.ok
             THEN LET closers == {j \in (i + 1)..(Len(ls) - 1) :
                                    FenceClosing(ls[j + 1], o.marker, o.length)}
                      haveEndMarker == closers # {}
                      nextLine == IF haveEndMarker THEN Min(closers) ELSE Len(ls)
                      end == nextLine + (IF haveEndMarker THEN 1 ELSE 0)
                  IN  <<Token("fence", o.params, o.markup, i, end,
                               getLines(ls, i + 1, nextLine, o.indent))>>
                      \o ParseBlocks(ls, end)
             ELSE LET stops == {j \in (i + 1)..(Len(ls) - 1) :
                                  IsBlank(ls[j + 1]) \/ FenceOpening(ls[j + 1]).ok}
                      end == IF stops = {} THEN Len(ls) ELSE Min(stops)
                  IN  <<Token("paragraph_open", <<>>, <<>>, i, end, <<>>),
                        Token("inline", <<>>, <<>>, i, end, Concat(SubSeq(ls, i + 1, end))),
                        Token("paragraph_close", <<>>, <<>>, i, end, <<>>)>>
                      \o ParseBlocks(ls, end)

md_parse(text) == ParseBlocks(splitlines(normalize(text)), 0)

\* ------------------------------------------- _is_matching_fence_token

\* str.split(): the maximal runs of non-space atoms.
RECURSIVE split(_)
split(s) ==
    LET t == Drop(s, CountRun(s, SP) + 1)
        I == {i \in 1..Len(t) : t[i] = SP}
        e == IF I = {} THEN Len(t) ELSE Min(I) - 1
    IN  IF t = <<>> THEN <<>> ELSE <<SubSeq(t, 1, e)>> \o split(Drop(t, e + 1))

LowerAtom(a) == IF a = "TOML" THEN "toml" ELSE a

lower(s) == [i \in 1..Len(s) |-> LowerAtom(s[i])]

\* .raised names the exception when the call raises; .value is the result.
_is_matching_fence_token(t, lg) ==
    IF t.type # "fence" THEN [raised |-> "", value |-> FALSE]
    ELSE LET words == split(t.info)
         IN  IF words = <<>>
             THEN [raised |-> "IndexError", value |-> FALSE]
             ELSE [raised |-> "", value |-> lower(words[1]) = lower(<<lg>>)]

\* ------------------------------------------------------ replace_fences

\* The for loop of replace_fences from token k on; st holds out, last, the
\* number of replace_fn calls made and the fences rewritten so far.
RECURSIVE FenceLoop(_, _, _, _, _, _)

\* The rest of one turn of the loop, r being what _process_fence_token
\* gave for the matching token k.
FenceTurn(tokens, k, ls, lg, f, st, r) ==
    LET start == tokens[k].map[1]
        end == tokens[k].map[2]
    IN  IF r.raised # ""
        THEN [done |-> TRUE, raised |-> r.raised, text |-> <<>>,
              calls |-> st.calls + 1, fences |-> st.fences]
        ELSE FenceLoop(tokens, k + 1, ls, lg, f,
                 [out |-> st.out \o Concat(SubSeq(ls, st.last + 1, start)) \o r.text,
                  last |-> end,
                  calls |-> st.calls + 1,
                  fences |-> Append(st.fences,
                                [start |-> start, end |-> end, text |-> r.text])])

FenceLoop(tokens, k, ls, lg, f, st) ==
    IF k > Len(tokens)
    THEN [done |-> TRUE, raised |-> "",
          text |-> st.out \o Concat(SubSeq(ls, st.last + 1, Len(ls))),
          calls |-> st.calls, fences |-> st.fences]
    ELSE LET m == _is_matching_fence_token(tokens[k], lg)
         IN  IF m.raised # ""
             THEN [done |-> TRUE, raised |-> m.raised, text |-> <<>>,
                   calls |-> st.calls, fences |-> st.fences]
             ELSE IF ~m.value THEN FenceLoop(tokens, k + 1, ls, lg, f, st)
             ELSE FenceTurn(tokens, k, ls, lg, f, st,
                            _process_fence_token(tokens[k], ls, lg, f))

replace_fences(text, lg, f) ==
    FenceLoop(md_parse(text), 1, splitlines(text), lg, f,
              [out |-> <<>>, last |-> 0, calls |-> 0, fences |-> <<>>])

\* ------------------------- _set_version and _update_markdown_versions

\* The text _set_version writes for the document doc: the package update,
\* the dependency update when a dependency is named, then tomlkit.dumps.
Dumped(q) ==
    IF q.raised # "" THEN [raised |-> q.raised, text |-> <<>>]
    ELSE [raised |-> "", text |-> dumps(q.doc)]

DependencySet(p, version, dependency) ==
    IF p.raised = "" /\ dependency # ""
    THEN Dumped(_update_dependency_version(p.doc, dependency, version))
    ELSE Dumped(p)

SetVersionText(doc, version, dependency) ==
    DependencySet(_update_package_version(doc, version), version, dependency)

\* _set_version on the text of a manifest: tomlkit.parse, then the above.
SetVersionParsed(p, version, dependency) ==
    IF p.raised # "" THEN [raised |-> p.raised, text |-> <<>>]
    ELSE SetVersionText(p.doc, version, dependency)

\* replace_fences(text, "toml", lambda body: replace_version_in_toml(body, version))
MarkdownText(text, version) ==
    replace_fences(text, "toml", [kind |-> "toml", result |-> version])

\* ----------------------------------------------------------------- main

\* The exceptions the except clauses of main and _update_member_version
\* catch: TOMLKitError, OSError, TypeError, ValueError.
Caught == {"TOMLKitError", "OSError", "TypeError", "ValueError"}

\* A path that names no file.
Missing == <<"ENOENT">>

\* A path that names a directory.
Dir == <<"DIR">>

WorkspaceToml == "Cargo.toml"

MemberToml(member_root) == IF member_root = "a" THEN "a/Cargo.toml" ELSE "b/Cargo.toml"

MdPaths == <<"README.md", "docs/users-guide.md">>

\* The strings of an array of member patterns.
ArrayItems(item) ==
    CASE item.text = <<"[a]">>   -> <<"a">>
      [] item.text = <<"[a,b]">> -> <<"a", "b">>
      [] OTHER                   -> <<>>

\* mapping.get(key, {}).get(name, default): the item under name of the
\* mapping under key, the default (None here) when either is absent, and
\* AttributeError when the value under key is no mapping and so has no get.
GetGet(doc, key, name) ==
    LET v == Get(doc.body, key)
    IN  IF v.kind = "None" THEN [raised |-> "", item |-> None]
        ELSE IF ~IsMapping(v) THEN [raised |-> "AttributeError", item |-> None]
        ELSE [raised |-> "", item |-> Get(v.body, name)]

\* _resolve_member_paths: root.glob(pattern) for each pattern, the patterns
\* that match nothing being left out.
_resolve_member_paths(fs, members) == SelectSeq(members, LAMBDA m : fs[m] # Missing)

\* _update_member_version on the text of a member manifest: .error is the
\* value returned, .raised an exception that is not caught, .text the text
\* written when there was no error.
MemberVersionSet(text, r) ==
    IF r.raised # "" THEN [error |-> TRUE, raised |-> "", text |-> text]
    ELSE [error |-> FALSE, raised |-> "", text |-> r.text]

MemberParsed(text, p, version) ==
    LET n == GetGet(p.doc, "package", "name")
        dep == IF n.item.kind = "String" /\ n.item.text = <<"ortho_config">>
               THEN "ortho_config_macros" ELSE ""
    IN  IF p.raised # "" THEN [error |-> TRUE, raised |-> "", text |-> text]
        ELSE IF n.raised # "" THEN [error |-> TRUE, raised |-> n.raised, text |-> text]
        ELSE MemberVersionSet(text, SetVersionText(p.doc, version, dep))

_update_member_version(text, version) == MemberParsed(text, parse(text), version)

\* -------------------------------------------------------- sitecustomize

\* The values tomllib.loads builds: strings, integers, lists and dicts; a
\* dict is the sequence of its items in the order of the file.
StrV(chars) == [t |-> "str", v |-> chars]

IntV == [t |-> "int", v |-> <<"5">>]

ListV(items) == [t |-> "list", v |-> items]

DictV(items) == [t |-> "dict", v |-> items]

Pair(key, value) == [k |-> key, val |-> value]

NoneV == [t |-> "None", v |-> <<>>]

\* dict.get(key, default)
DictGet(d, key, default) ==
    IF \E i \in 1..Len(d.v) : d.v[i].k = key
    THEN d.v[CHOOSE i \in 1..Len(d.v) : d.v[i].k = key].val
    ELSE default

\* What lading.toml holds: no file, bytes that are no UTF-8, a text that is
\* no TOML, or the text of the dict config.
NoFile == [kind |-> "missing", config |-> NoneV]

NotUtf8 == [kind |-> "bytes", config |-> NoneV]

NotToml == [kind |-> "invalid", config |-> NoneV]

TomlFile(config) == [kind |-> "toml", config |-> config]

ConfigPath(root) == IF root = "r1" THEN "r1/lading.toml" ELSE "r2/lading.toml"

\* _read_lading_config: FileNotFoundError and TOMLDecodeError give None;
\* the UnicodeDecodeError of read_text(encoding="utf-8") is not caught.
_read_lading_config(fs, workspace_root) ==
    LET f == fs[ConfigPath(workspace_root)]
    IN  CASE f.kind = "missing" -> [raised |-> "", parsed |-> NoneV]
          [] f.kind = "bytes"   -> [raised |-> "UnicodeDecodeError", parsed |-> NoneV]
          [] f.kind = "invalid" -> [raised |-> "", parsed |-> NoneV]
          [] OTHER              -> [raised |-> "", parsed |-> f.config]

\* str.strip()
PyWhitespace == {SP, LF, CR, "\t"}

RECURSIVE lstrip(_)
lstrip(chars) ==
    IF chars # <<>> /\ Head(chars) \in PyWhitespace THEN lstrip(Tail(chars)) ELSE chars

RECURSIVE rstrip(_)
rstrip(chars) ==
    IF chars # <<>> /\ chars[Len(chars)] \in PyWhitespace
    THEN rstrip(SubSeq(chars, 1, Len(chars) - 1))
    ELSE chars

strip(chars) == rstrip(lstrip(chars))

\* The items iterating a value yields: the items of a list, the keys of a
\* dict.
Iterate(value) ==
    IF value.t = "list" THEN value.v
    ELSE [i \in 1..Len(value.v) |-> StrV(value.v[i].k)]

RECURSIVE StripLoop(_)
StripLoop(items) ==
    IF items = <<>> THEN <<>>
    ELSE LET candidate == strip(Head(items).v)
         IN  (IF candidate # <<>> THEN <<candidate>> ELSE <<>>) \o StripLoop(Tail(items))

_normalize_exclude_list(raw_excludes) ==
    LET iterable == IF raw_excludes.t = "str" THEN <<raw_excludes>>
                    ELSE IF raw_excludes.t \in {"list", "dict"}
                    THEN SelectSeq(Iterate(raw_excludes), LAMBDA item : item.t = "str")
                    ELSE <<>>
    IN  StripLoop(iterable)

\* The body of _load_preflight_test_excludes for a root that is not None.
LoadExcludes(fs, workspace_root) ==
    LET r == _read_lading_config(fs, workspace_root)
        raw_preflight == DictGet(r.parsed, "preflight", NoneV)
    IN  IF r.raised # "" THEN [raised |-> r.raised, value |-> <<>>]
        ELSE IF r.parsed.t = "None" THEN [raised |-> "", value |-> <<>>]
        ELSE IF raw_preflight.t # "dict" THEN [raised |-> "", value |-> <<>>]
        ELSE [raised |-> "",
              value |-> _normalize_exclude_list(
                            DictGet(raw_preflight, "test_exclude", ListV(<<>>)))]

\* functools.lru_cache(maxsize=8): the cache is the sequence of its
\* entries, the most recently used first.
CacheSize == 8

CacheHit(cache, key) == \E i \in 1..Len(cache) : cache[i].key = key

CacheEntry(cache, key) == cache[CHOOSE i \in 1..Len(cache) : cache[i].key = key]

Touch(cache, entry) ==
    LET rest == SelectSeq(cache, LAMBDA e : e.key # entry.key)
    IN  SubSeq(<<entry>> \o rest, 1, Min({CacheSize, Len(rest) + 1}))

\* _load_preflight_test_excludes behind its cache: a hit returns the stored
\* tuple, a miss runs the body and stores what it returns; an exception
\* stores nothing.
_load_preflight_test_excludes(fs, cache, workspace_root) ==
    LET r == LoadExcludes(fs, workspace_root)
    IN  IF CacheHit(cache, workspace_root)
        THEN [raised |-> "", value |-> CacheEntry(cache, workspace_root).value,
              cache |-> Touch(cache, CacheEntry(cache, workspace_root))]
        ELSE IF r.raised # "" THEN [raised |-> r.raised, value |-> <<>>, cache |-> cache]
        ELSE [raised |-> "", value |-> r.value,
              cache |-> Touch(cache, [key |-> workspace_root, value |-> r.value])]

DefaultArgs == <<<<"--workspace">>, <<"--all-targets">>>>

RECURSIVE ExcludeArgs(_)
ExcludeArgs(excludes) ==
    IF excludes = <<>> THEN <<>>
    ELSE <<<<"--exclude">>, Head(excludes)>> \o ExcludeArgs(Tail(excludes))

\* _patched_run_cargo_preflight up to the call of the runner: the command
\* handed to the runner, or the exception of the loader.
_patched_run_cargo_preflight(fs, cache, workspace_root, subcommand, extra_args) ==
    LET arguments == IF extra_args # <<>> THEN extra_args ELSE DefaultArgs
        l == IF subcommand = "test"
             THEN _load_preflight_test_excludes(fs, cache, workspace_root)
             ELSE [raised |-> "", value |-> <<>>, cache |-> cache]
    IN  IF l.raised # ""
        THEN [raised |-> l.raised, command |-> <<>>, cache |-> l.cache]
        ELSE [raised |-> "",
              command |-> <<<<"cargo">>, <<subcommand>>>> \o arguments \o ExcludeArgs(l.value),
              cache |-> l.cache]

\* ------------------------------------------------------------ inputs

\* Runs of at most n newline sequences, each LF or CR LF.
RECURSIVE NewlineRuns(_)
NewlineRuns(n) ==
    IF n = 0 THEN {<<>>}
    ELSE LET R == NewlineRuns(n - 1)
         IN  R \cup {<<LF>> \o r : r \in R} \cup {<<CR, LF>> \o r : r \in R}

BodyStems == {<<>>, <<"x">>, <<"x", LF, "x">>}

Bodies == {s \o r : s \in BodyStems, r \in NewlineRuns(MaxRun)}

Indents == {<<>>, <<SP, SP>>}

\* Markdown blocks, each a sequence of line contents.
MdBlocks ==
    { <<<<"x">>>>,
      <<<<>>>>,
      <<<<BT, BT, BT, "toml">>, <<"x">>, <<BT, BT, BT>>>>,
      <<<<SP, SP, BT, BT, BT, "toml">>, <<SP, SP, "x">>, <<SP, SP, SP, "x">>,
        <<SP, SP, BT, BT, BT>>>>,
      <<<<TL, TL, TL, SP, "TOML", SP, "mod">>, <<"x">>, <<>>, <<TL, TL, TL>>>>,
      <<<<BT, BT, BT, "toml">>, <<BT, BT, BT>>>>,
      <<<<BT, BT, BT, "toml">>, <<"x">>>>,
      <<<<BT, BT, BT, "bash">>, <<"x">>, <<BT, BT, BT>>>>,
      <<<<BT, BT, BT>>, <<"x">>, <<BT, BT, BT>>>> }

RECURSIVE BlockSeqs(_)
BlockSeqs(n) ==
    IF n = 0 THEN {<<>>}
    ELSE LET R == BlockSeqs(n - 1)
         IN  R \cup {b \o r : b \in MdBlocks, r \in R}

\* The text of line contents cs, each ended by eol, the last one by final.
JoinLines(cs, eol, final) ==
    Concat([i \in 1..Len(cs) |-> cs[i] \o (IF i = Len(cs) THEN final ELSE eol)])

MdTexts ==
    {JoinLines(cs, e[1], e[2]) :
        cs \in BlockSeqs(MaxBlocks) \ {<<>>},
        e \in {<<<<LF>>, <<LF>>>>, <<<<LF>>, <<>>>>, <<<<CR, LF>>, <<CR, LF>>>>}}

FenceFns ==
    {[kind |-> "identity", result |-> <<>>],
     [kind |-> "replace", result |-> <<>>],
     [kind |-> "const", result |-> <<"y", LF, "z">>]}

\* TOML items of the input documents.
Str(text, quote, comment) == Item("String", text, text, quote, comment, <<LF>>, <<>>)

InStr(text) == Item("String", text, text, DQ, <<>>, <<>>, <<>>)

IntItem(n, trail) == Item("Integer", <<n>>, <<n>>, "", <<>>, trail, <<>>)

TrueItem == Item("Bool", <<"True">>, <<"true">>, "", <<>>, <<>>, <<>>)

Features == Entry("features", Item("Array", <<"[a]">>, <<"[a]">>, "", <<>>, <<>>, <<>>))

Inline(body) == Item("InlineTable", <<>>, <<>>, "", <<>>, <<LF>>, body)

Table(body) == Item("Table", <<>>, <<>>, "", <<>>, <<LF>>, body)

\* The forms of a dependency entry.
DepItems ==
    { Str(<<"^", "1">>, DQ, <<>>),
      Str(<<"~", "1">>, SQ, <<"#c">>),
      Str(<<"1">>, DQ, <<"#c">>),
      IntItem("1", <<LF>>),
      Inline(<<Entry("version", InStr(<<"~", "1">>)), Features>>),
      Inline(<<Entry("workspace", TrueItem)>>),
      Inline(<<Features>>),
      Inline(<<Entry("workspace", TrueItem), Entry("version", InStr(<<"1">>))>>),
      Inline(<<Entry("version", IntItem("1", <<>>)), Features>>),
      Table(<<Entry("version", Str(<<"^", "1">>, DQ, <<"#c">>)),
              [Features EXCEPT !.item.trail = <<LF>>]>>) }

Bar == Entry("bar", Str(<<"0">>, DQ, <<>>))

\* What a document holds under a dependency-table key: nothing, an empty
\* table, a value that is no table, or a table of entries.
TableValues ==
    {None, Table(<<>>), IntItem("5", <<LF>>), Str(<<"foo">>, DQ, <<>>), Table(<<Bar>>)}
    \cup {Table(<<Entry("foo", e)>>) : e \in DepItems}
    \cup {Table(<<Bar, Entry("foo", e)>>) : e \in DepItems}

\* The document holding value cs[k] under Tables[k]: the values that are no
\* tables first, as TOML requires, then the tables.
MakeDoc(cs) ==
    LET I == 1..Len(Tables)
        all == [k \in I |-> Entry(Tables[k], cs[k])]
    IN  [body |-> SelectSeq(all, LAMBDA e : e.item.kind \notin {"None", "Table"})
                  \o SelectSeq(all, LAMBDA e : e.item.kind = "Table")]

Docs == {MakeDoc(cs) : cs \in [1..Len(Tables) -> TableValues]}

\* What a snippet holds under a dependency-table key.
SnippetTables ==
    {None, Table(<<>>), IntItem("5", <<LF>>), Table(<<Bar>>),
     Table(<<Bar, Entry("ortho_config", Str(<<"^", "1">>, DQ, <<>>))>>)}
    \cup {Table(<<Entry("ortho_config", e)>>) : e \in DepItems}

\* Snippets use at most two of the three keys.
SnippetDocs ==
    {MakeDoc(cs) : cs \in {f \in [1..Len(Tables) -> SnippetTables] :
                              \E k \in 1..Len(Tables) : f[k] = None}}

\* s with every LF made CR LF.
CrLf(s) == Concat([i \in 1..Len(s) |-> IF s[i] = LF THEN <<CR, LF>> ELSE <<s[i]>>])

\* Texts that are no TOML: a bare word, a header that is not closed, a key
\* without a value.
BadToml == {<<"x">>, <<"[", "dependencies", LF, "ortho_config", "=", DQ, "1", DQ>>,
            <<"[", "dependencies", "]", LF, "ortho_config", "=">>}

\* The snippets: the documents written out with LF or CR LF line ends, and
\* the texts that are no TOML, each ended by a run of newline sequences.
SnippetTexts ==
    {b \o r : b \in {rstrip_crlf(dumps(d)) : d \in SnippetDocs}
                    \cup {CrLf(rstrip_crlf(dumps(d))) : d \in SnippetDocs}
                    \cup BadToml,
              r \in NewlineRuns(MaxRun)}

\* What a manifest holds under the keys workspace and package.
Members == Entry("members", Item("Array", <<"[a]">>, <<"[a]">>, "", <<>>, <<LF>>, <<>>))

Name == Entry("name", Str(<<"foo">>, DQ, <<>>))

PackageTables ==
    {Table(<<Name>>),
     Table(<<Name, Entry("version", Str(<<"0">>, SQ, <<"#c">>))>>),
     Table(<<Entry("version", Inline(<<Entry("workspace", TrueItem)>>)), Name>>)}

WorkspaceValues ==
    {None, IntItem("5", <<LF>>), Str(<<"package">>, DQ, <<>>), Table(<<>>), Table(<<Members>>),
     Table(<<Members, Entry("package", IntItem("5", <<LF>>))>>)}
    \cup {Table(<<Members, Entry("package", t)>>) : t \in PackageTables}

PackageValues == {None, IntItem("5", <<LF>>)} \cup PackageTables

\* The manifest holding w under workspace, pkg under package and deps under
\* dependencies: the values that are no tables first, then the tables.
MakeManifest(w, pkg, deps) ==
    LET all == <<Entry("workspace", w), Entry("package", pkg), Entry("dependencies", deps)>>
    IN  [body |-> SelectSeq(all, LAMBDA e : e.item.kind \notin {"None", "Table"})
                  \o SelectSeq(all, LAMBDA e : e.item.kind = "Table")]

Manifests ==
    {MakeManifest(w, pkg, deps) :
        w \in WorkspaceValues, pkg \in PackageValues, deps \in {None, Table(<<Bar>>)}}

\* The manifests on disk: the text of each document of Manifests, and a
\* text that is no TOML.
ManifestTexts == {dumps(d) : d \in Manifests} \cup {<<"x", LF>>}

\* The bodies of the TOML fences of the Markdown files.
TomlBodies ==
    { <<<<"[", "dependencies", "]">>, <<"ortho_config", "=", DQ, "^", "1", DQ>>>>,
      <<<<"[", "dependencies", "]">>, <<"bar", "=", DQ, "0", DQ>>>>,
      <<<<"x">>>> }

\* The Markdown files on disk: a paragraph, TOML fences, a TOML fence after
\* a paragraph, an indented TOML fence, and a fence without a language tag.
MdFileTexts ==
    {JoinLines(cs, <<LF>>, <<LF>>) :
        cs \in {<<<<"x">>>>, <<<<BT, BT, BT>>, <<"x">>, <<BT, BT, BT>>>>}
               \cup {<<<<BT, BT, BT, "toml">>>> \o b \o <<<<BT, BT, BT>>>> : b \in TomlBodies}
               \cup {<<<<"x">>, <<>>, <<BT, BT, BT, "toml">>>> \o b \o <<<<BT, BT, BT>>>> :
                        b \in TomlBodies}
               \cup {<<<<SP, SP, BT, BT, BT, "toml">>>>
                     \o [i \in 1..Len(b) |-> <<SP, SP>> \o b[i]]
                     \o <<<<SP, SP, BT, BT, BT>>>> : b \in TomlBodies}}

\* Documents that use one of the three dependency keys at most.
OneTableDocs ==
    {MakeDoc(cs) : cs \in {f \in [1..Len(Tables) -> TableValues] :
                              Cardinality({k \in 1..Len(Tables) : f[k] # None}) <= 1}}

\* The workspace manifest on disk: none, a text that is no TOML, a
\* workspace of two members, a workspace of one member with a package of
\* its own, a single package, and the workspace and workspace.package keys
\* holding an integer.
Members2 == Entry("members", Item("Array", <<"[a,b]">>, <<"[a,b]">>, "", <<>>, <<LF>>, <<>>))

VersionedPackage == Table(<<Name, Entry("version", Str(<<"0">>, SQ, <<"#c">>))>>)

WorkspaceTexts ==
    {Missing, <<"x", LF>>}
    \cup {dumps(d) : d \in
            {MakeManifest(Table(<<Members2, Entry("package", VersionedPackage)>>), None, None),
             MakeManifest(Table(<<Members>>), VersionedPackage, None),
             MakeManifest(None, VersionedPackage, None),
             MakeManifest(IntItem("5", <<LF>>), None, None),
             MakeManifest(Table(<<Members2, Entry("package", IntItem("5", <<LF>>))>>),
                          None, None)}}

\* A member manifest on disk: a package, the ortho_config package with its
\* dependency on ortho_config_macros, a text that is no TOML, and the
\* package key holding an integer.
GoodMemberText == dumps(MakeManifest(None, VersionedPackage, None))

MemberTexts ==
    {GoodMemberText,
     dumps(MakeManifest(None,
                        Table(<<Entry("name", Str(<<"ortho_config">>, DQ, <<>>)),
                                Entry("version", Str(<<"0">>, DQ, <<>>))>>),
                        Table(<<Entry("ortho_config_macros", Str(<<"^", "1">>, DQ, <<>>))>>))),
     <<"x", LF>>,
     dumps(MakeManifest(None, IntItem("5", <<LF>>), None))}

\* What the paths of a member hold: nothing, a manifest file matched by the
\* pattern itself, a directory without a manifest, a directory with one.
MemberStates ==
    {[root |-> Missing, toml |-> Missing], [root |-> GoodMemberText, toml |-> Missing],
     [root |-> Dir, toml |-> Missing]}
    \cup {[root |-> Dir, toml |-> t] : t \in MemberTexts}

\* README.md on disk: none, a paragraph, a fence without a language tag, a
\* TOML fence naming ortho_config, a TOML fence whose dependencies key holds
\* an integer.
ReadmeTexts ==
    {Missing}
    \cup {JoinLines(cs, <<LF>>, <<LF>>) :
            cs \in {<<<<"x">>>>,
                    <<<<BT, BT, BT>>, <<"x">>, <<BT, BT, BT>>>>,
                    <<<<BT, BT, BT, "toml">>, <<"[", "dependencies", "]">>,
                      <<"ortho_config", "=", DQ, "^", "1", DQ>>, <<BT, BT, BT>>>>,
                    <<<<BT, BT, BT, "toml">>, <<"dependencies", "=", "5">>,
                      <<BT, BT, BT>>>>}}

\* docs/users-guide.md on disk: none, or a TOML fence naming ortho_config.
GuideTexts ==
    {Missing,
     JoinLines(<<<<BT, BT, BT, "toml">>, <<"[", "dependencies", "]">>,
                 <<"ortho_config", "=", DQ, "0", DQ>>, <<BT, BT, BT>>>>, <<LF>>, <<LF>>)}

\* sys.argv: the program name, then the arguments.
Argvs == {<<"bump_version.py">>, <<"bump_version.py", <<"2">>>>,
          <<"bump_version.py", <<"2">>, <<"x">>>>}

\* The values of test_exclude: a string, an integer, lists of strings with
\* and without surrounding blanks, of blank and empty strings and of
\* integers, and a table.
TestExcludes ==
    {StrV(<<SP, "a">>), IntV, ListV(<<>>),
     ListV(<<StrV(<<"a">>), StrV(<<SP, "b", SP>>)>>),
     ListV(<<StrV(<<"b">>), IntV, StrV(<<SP>>), StrV(<<>>), StrV(<<"a">>)>>),
     DictV(<<Pair(<<"a">>, IntV)>>)}

\* lading.toml of the first root: the unreadable and unparseable files, a
\* config without preflight, with a preflight that is no table, with a
\* preflight table without test_exclude, and one per value of test_exclude.
LadingFiles ==
    {NoFile, NotUtf8, NotToml,
     TomlFile(DictV(<<Pair("bumper", DictV(<<>>))>>)),
     TomlFile(DictV(<<Pair("preflight", IntV)>>)),
     TomlFile(DictV(<<Pair("preflight", DictV(<<Pair("other", IntV)>>))>>))}
    \cup {TomlFile(DictV(<<Pair("bumper", DictV(<<>>)),
                           Pair("preflight", DictV(<<Pair("test_exclude", x)>>))>>)) :
            x \in TestExcludes}

\* lading.toml of the second root.
OtherLadingFiles ==
    {NoFile, TomlFile(DictV(<<Pair("preflight",
                                   DictV(<<Pair("test_exclude", ListV(<<StrV(<<"c">>)>>))>>))>>))}

Roots == {"r1", "r2"}

Subcommands == {"test", "check"}

ExtraArgs == {<<>>, <<<<"--all-features">>>>}

Versions == {<<"2">>, <<"^", "2">>}

EmptyDoc == [body |-> <<>>]

DepIdle ==
    /\ document = EmptyDoc
    /\ dep_name = ""
    /\ new_version = <<>>
    /\ raised = ""
    /\ doc_log = <<>>

NoTokResult == [done |-> FALSE, raised |-> "", indent |-> <<>>, new_body |-> <<>>, text |-> <<>>]
NoMdResult == [done |-> FALSE, raised |-> "", text |-> <<>>, calls |-> 0, fences |-> <<>>]
NoTok == Token("", <<>>, <<>>, 0, 0, <<>>)

FenceIdle ==
    /\ tok = NoTok
    /\ lines = <<>>
    /\ lang = ""
    /\ replace_fn = [kind |-> "identity", result |-> <<>>]
    /\ tok_result = NoTokResult
    /\ md_text = <<>>
    /\ md_result = NoMdResult

NoTomlResult == [done |-> FALSE, raised |-> "", text |-> <<>>]

TomlIdle ==
    /\ snippet = <<>>
    /\ toml_result = NoTomlResult

NoFiles == [p \in {} |-> Missing]

NoWriter == [pc |-> "idle"]

NoRun == [pc |-> "idle"]

NoPreflight == [pc |-> "idle"]

ToolIdle ==
    /\ files = NoFiles
    /\ writer = NoWriter
    /\ main_run = NoRun
    /\ preflight = NoPreflight

\* ------------------------------------------ specification: one fence token

InitToken ==
    /\ \E ind \in Indents, mk \in {<<BT, BT, BT>>, <<TL, TL, TL>>}, body \in Bodies :
          /\ tok = Token("fence", <<"toml">>, mk, 0, Len(splitlines(body)) + 2, body)
          /\ lines = <<ind \o mk \o <<"toml", LF>>>>
    /\ lang = "toml"
    /\ replace_fn \in {[kind |-> "const", result |-> b] : b \in Bodies}
                      \cup {[kind |-> "identity", result |-> <<>>]}
    /\ tok_result = NoTokResult
    /\ md_text = <<>>
    /\ md_result = NoMdResult
    /\ DepIdle
    /\ TomlIdle
    /\ ToolIdle

ProcessFenceToken ==
    /\ ~tok_result.done
    /\ tok_result' = [done |-> TRUE] @@ _process_fence_token(tok, lines, lang, replace_fn)
    /\ UNCHANGED <<tok, lines, lang, replace_fn, md_text, md_result>>
    /\ UNCHANGED depVars
    /\ UNCHANGED tomlVars
    /\ UNCHANGED toolVars

NextToken == ProcessFenceToken

SpecToken == InitToken /\ [][NextToken]_vars

\* ------------------------------------- specification: replace_fences

InitFence ==
    /\ md_text \in MdTexts
    /\ lang = "toml"
    /\ replace_fn \in FenceFns
    /\ md_result = NoMdResult
    /\ tok = NoTok
    /\ lines = <<>>
    /\ tok_result = NoTokResult
    /\ DepIdle
    /\ TomlIdle
    /\ ToolIdle

ReplaceFences ==
    /\ ~md_result.done
    /\ md_result' = replace_fences(md_text, lang, replace_fn)
    /\ UNCHANGED <<md_text, lang, replace_fn, tok, lines, tok_result>>
    /\ UNCHANGED depVars
    /\ UNCHANGED tomlVars
    /\ UNCHANGED toolVars

NextFence == ReplaceFences

SpecFence == InitFence /\ [][NextFence]_vars

\* ----------------------------- specification: the dependency updater

InitDeps ==
    /\ document \in Docs
    /\ dep_name \in {"foo", "bar"}
    /\ new_version \in Versions
    /\ raised = ""
    /\ doc_log = <<document>>
    /\ FenceIdle
    /\ TomlIdle
    /\ ToolIdle

UpdateDependencyVersion ==
    /\ Len(doc_log) <= MaxCalls
    /\ LET r == _update_dependency_version(document, dep_name, new_version)
       IN  /\ document' = r.doc
           /\ raised' = r.raised
           /\ doc_log' = Append(doc_log, r.doc)
    /\ UNCHANGED <<dep_name, new_version>>
    /\ UNCHANGED fenceVars
    /\ UNCHANGED tomlVars
    /\ UNCHANGED toolVars

NextDeps == UpdateDependencyVersion

SpecDeps == InitDeps /\ [][NextDeps]_vars

\* ---------------------------- specification: _update_package_version

InitPackage ==
    /\ document \in Manifests
    /\ dep_name = ""
    /\ new_version \in Versions
    /\ raised = ""
    /\ doc_log = <<document>>
    /\ FenceIdle
    /\ TomlIdle
    /\ ToolIdle

UpdatePackageVersion ==
    /\ Len(doc_log) <= MaxCalls
    /\ LET r == _update_package_version(document, new_version)
       IN  /\ document' = r.doc
           /\ raised' = r.raised
           /\ doc_log' = Append(doc_log, r.doc)
    /\ UNCHANGED <<dep_name, new_version>>
    /\ UNCHANGED fenceVars
    /\ UNCHANGED tomlVars
    /\ UNCHANGED toolVars

NextPackage == UpdatePackageVersion

SpecPackage == InitPackage /\ [][NextPackage]_vars

\* ------------------------------- specification: one file being written

TempName == "tmp"

\* One call of _set_version(toml_path, version, dependency) on a manifest,
\* or of _update_markdown_versions(md_path, version) on a Markdown file.
InitDisk ==
    /\ \/ \E t \in ManifestTexts, v \in Versions, dep \in {"", "bar"} :
             /\ files = [p \in {"Cargo.toml", TempName} |->
                            IF p = "Cargo.toml" THEN t ELSE Missing]
             /\ writer = [pc |-> "start", fn |-> "_set_version", path |-> "Cargo.toml",
                          version |-> v, dependency |-> dep, old |-> t,
                          text |-> <<>>, pos |-> 0, raised |-> ""]
       \/ \E t \in MdFileTexts \cup {Missing}, v \in Versions :
             /\ files = [p \in {"README.md", TempName} |->
                            IF p = "README.md" THEN t ELSE Missing]
             /\ writer = [pc |-> "start", fn |-> "_update_markdown_versions",
                          path |-> "README.md", version |-> v, dependency |-> "",
                          old |-> t, text |-> <<>>, pos |-> 0, raised |-> ""]
    /\ main_run = NoRun
    /\ preflight = NoPreflight
    /\ DepIdle
    /\ FenceIdle
    /\ TomlIdle

DiskFrame == UNCHANGED <<main_run, preflight, depVars, fenceVars, tomlVars>>

\* The writer once the text to write is computed, or the computation raised.
Computed(r) ==
    IF r.raised # "" THEN [writer EXCEPT !.pc = "raised", !.raised = r.raised]
    ELSE [writer EXCEPT !.pc = "computed", !.text = r.text]

\* _set_version up to tomlkit.dumps: the file is read and parsed, the
\* document updated and serialized; nothing is written yet.
SetVersionCompute ==
    /\ writer.fn = "_set_version" /\ writer.pc = "start"
    /\ writer' = Computed(SetVersionParsed(parse(files[writer.path]), writer.version,
                                           writer.dependency))
    /\ UNCHANGED files
    /\ DiskFrame

\* tempfile.NamedTemporaryFile("w", dir=toml_path.parent, delete=False)
SetVersionCreateTemp ==
    /\ writer.fn = "_set_version" /\ writer.pc = "computed"
    /\ files' = [files EXCEPT ![TempName] = <<>>]
    /\ writer' = [writer EXCEPT !.pc = "writing"]
    /\ DiskFrame

\* tf.write(text), one piece of the text reaching the file at a time.
SetVersionWrite ==
    /\ writer.fn = "_set_version" /\ writer.pc = "writing"
    /\ writer.pos < Len(writer.text)
    /\ files' = [files EXCEPT ![TempName] = Append(@, writer.text[writer.pos + 1])]
    /\ writer' = [writer EXCEPT !.pos = @ + 1]
    /\ DiskFrame

\* The with block ends: the temporary file is closed.
SetVersionClose ==
    /\ writer.fn = "_set_version" /\ writer.pc = "writing"
    /\ writer.pos = Len(writer.text)
    /\ writer' = [writer EXCEPT !.pc = "closed"]
    /\ UNCHANGED files
    /\ DiskFrame

\* os.replace(temp_name, toml_path)
SetVersionReplace ==
    /\ writer.fn = "_set_version" /\ writer.pc = "closed"
    /\ files' = [files EXCEPT ![writer.path] = files[TempName], ![TempName] = Missing]
    /\ writer' = [writer EXCEPT !.pc = "done"]
    /\ DiskFrame

\* _update_markdown_versions up to the value of updated: return when the
\* file does not exist, else read it and rewrite its fences.
MarkdownCompute ==
    /\ writer.fn = "_update_markdown_versions" /\ writer.pc = "start"
    /\ writer' = IF files[writer.path] = Missing THEN [writer EXCEPT !.pc = "done"]
                 ELSE Computed(MarkdownText(files[writer.path], writer.version))
    /\ UNCHANGED files
    /\ DiskFrame

\* md_path.write_text(updated): open(md_path, "w") empties the file itself.
MarkdownOpen ==
    /\ writer.fn = "_update_markdown_versions" /\ writer.pc = "computed"
    /\ files' = [files EXCEPT ![writer.path] = <<>>]
    /\ writer' = [writer EXCEPT !.pc = "writing"]
    /\ DiskFrame

MarkdownWrite ==
    /\ writer.fn = "_update_markdown_versions" /\ writer.pc = "writing"
    /\ writer.pos < Len(writer.text)
    /\ files' = [files EXCEPT ![writer.path] = Append(@, writer.text[writer.pos + 1])]
    /\ writer' = [writer EXCEPT !.pos = @ + 1]
    /\ DiskFrame

MarkdownClose ==
    /\ writer.fn = "_update_markdown_versions" /\ writer.pc = "writing"
    /\ writer.pos = Len(writer.text)
    /\ writer' = [writer EXCEPT !.pc = "done"]
    /\ UNCHANGED files
    /\ DiskFrame

\* The process is interrupted where it is.
Interrupt ==
    /\ writer.pc \in {"start", "computed", "writing", "closed"}
    /\ writer' = [writer EXCEPT !.pc = "interrupted"]
    /\ UNCHANGED files
    /\ DiskFrame

NextDisk ==
    \/ SetVersionCompute
    \/ SetVersionCreateTemp
    \/ SetVersionWrite
    \/ SetVersionClose
    \/ SetVersionReplace
    \/ MarkdownCompute
    \/ MarkdownOpen
    \/ MarkdownWrite
    \/ MarkdownClose
    \/ Interrupt

SpecDisk == InitDisk /\ [][NextDisk]_vars

\* ----------------------------------- specification: the field updater

\* Calls of the two updaters on one parsed document, in any order.
InitUpdater ==
    /\ document \in Manifests \cup OneTableDocs
    /\ dep_name \in {"foo", "bar"}
    /\ new_version \in Versions
    /\ raised = ""
    /\ doc_log = <<document>>
    /\ FenceIdle
    /\ TomlIdle
    /\ ToolIdle

NextUpdater == UpdatePackageVersion \/ UpdateDependencyVersion

SpecUpdater == InitUpdater /\ [][NextUpdater]_vars

\* ---------------------------- specification: replace_version_in_toml

InitToml ==
    /\ snippet \in SnippetTexts
    /\ new_version \in Versions
    /\ toml_result = NoTomlResult
    /\ document = EmptyDoc
    /\ dep_name = ""
    /\ raised = ""
    /\ doc_log = <<>>
    /\ FenceIdle
    /\ ToolIdle

ReplaceVersionInToml ==
    /\ ~toml_result.done
    /\ toml_result' = [done |-> TRUE] @@ replace_version_in_toml(snippet, new_version)
    /\ UNCHANGED snippet
    /\ UNCHANGED depVars
    /\ UNCHANGED fenceVars
    /\ UNCHANGED toolVars

NextToml == ReplaceVersionInToml

SpecToml == InitToml /\ [][NextToml]_vars

\* Specification of main: one run over a workspace on disk.
MainPaths == {WorkspaceToml, "a", "b", "a/Cargo.toml", "b/Cargo.toml",
              "README.md", "docs/users-guide.md"}

NoExit == -1

InitMain ==
    /\ \E w \in WorkspaceTexts, a \in MemberStates, b \in MemberStates,
          r \in ReadmeTexts, g \in GuideTexts, argv \in Argvs :
          /\ files = [p \in MainPaths |->
                        CASE p = WorkspaceToml         -> w
                          [] p = "a"                   -> a.root
                          [] p = "a/Cargo.toml"        -> a.toml
                          [] p = "b"                   -> b.root
                          [] p = "b/Cargo.toml"        -> b.toml
                          [] p = "README.md"           -> r
                          [] p = "docs/users-guide.md" -> g]
          /\ main_run = [pc |-> "start", argv |-> argv, version |-> <<>>, data |-> EmptyDoc,
                         members |-> <<>>, resolved |-> <<>>, todo |-> <<>>,
                         attempted |-> <<>>, failed |-> <<>>, had_error |-> FALSE,
                         written |-> FALSE, md_todo |-> MdPaths, md_done |-> <<>>,
                         md_failed |-> <<>>, exit_code |-> NoExit, raised |-> ""]
    /\ writer = NoWriter
    /\ preflight = NoPreflight
    /\ DepIdle
    /\ FenceIdle
    /\ TomlIdle

MainFrame == UNCHANGED <<writer, preflight, depVars, fenceVars, tomlVars>>

\* return code
Return(code) == [main_run EXCEPT !.pc = "returned", !.exit_code = code]

\* an exception no except clause of main catches
Crash(exc) == [main_run EXCEPT !.pc = "crashed", !.raised = exc]

\* _validate_args_and_setup and the return of 1 on None
MainValidate ==
    /\ main_run.pc = "start"
    /\ main_run' = IF Len(main_run.argv) # 2 THEN Return(1)
                   ELSE [main_run EXCEPT !.pc = "parse", !.version = main_run.argv[2]]
    /\ UNCHANGED files
    /\ MainFrame

\* The workspace manifest is opened and parsed, with a return of 1 on
\* failure; then members = data.get("workspace", {}).get("members", []),
\* outside every try block.
WorkspaceParsed(text, p) ==
    LET m == GetGet(p.doc, "workspace", "members")
    IN  IF text = Missing \/ p.raised # "" THEN Return(1)
        ELSE IF m.raised # "" THEN Crash(m.raised)
        ELSE [main_run EXCEPT !.pc = "set", !.data = p.doc,
                              !.members = IF m.item.kind = "None" THEN <<>>
                                          ELSE ArrayItems(m.item)]

MainParseWorkspace ==
    /\ main_run.pc = "parse"
    /\ main_run' = WorkspaceParsed(files[WorkspaceToml], parse(files[WorkspaceToml]))
    /\ UNCHANGED files
    /\ MainFrame

\* _set_version(workspace, version, doc=data), with a return of 1 on failure
WorkspaceSet(r) ==
    IF r.raised # ""
    THEN /\ main_run' = IF r.raised \in Caught THEN Return(1) ELSE Crash(r.raised)
         /\ UNCHANGED files
    ELSE /\ main_run' = [main_run EXCEPT !.pc = "resolve", !.written = TRUE]
         /\ files' = [files EXCEPT ![WorkspaceToml] = r.text]

MainSetWorkspace ==
    /\ main_run.pc = "set"
    /\ WorkspaceSet(SetVersionText(main_run.data, main_run.version, ""))
    /\ MainFrame

\* _process_members up to its loop: the member patterns are resolved.
MainResolveMembers ==
    /\ main_run.pc = "resolve"
    /\ LET paths == _resolve_member_paths(files, main_run.members)
       IN  main_run' = [main_run EXCEPT !.pc = IF paths = <<>> THEN "markdown" ELSE "members",
                                        !.resolved = paths, !.todo = paths]
    /\ UNCHANGED files
    /\ MainFrame

\* One turn of the loop of _process_members: _process_single_member on the
\* next resolved member.
MemberProcessed(member_root, member_path, r) ==
    LET next == [main_run EXCEPT !.pc = IF Tail(main_run.todo) = <<>> THEN "markdown"
                                        ELSE "members",
                                 !.todo = Tail(main_run.todo),
                                 !.attempted = Append(main_run.attempted, member_root)]
    IN  IF files[member_path] = Missing
        THEN /\ main_run' = next
             /\ UNCHANGED files
        ELSE IF r.raised # ""
        THEN /\ main_run' = [main_run EXCEPT
                                 !.pc = "crashed", !.raised = r.raised,
                                 !.todo = Tail(main_run.todo),
                                 !.attempted = Append(main_run.attempted, member_root),
                                 !.failed = Append(main_run.failed, member_root)]
             /\ UNCHANGED files
        ELSE IF r.error
        THEN /\ main_run' = [next EXCEPT !.had_error = TRUE,
                                         !.failed = Append(main_run.failed, member_root)]
             /\ UNCHANGED files
        ELSE /\ main_run' = next
             /\ files' = [files EXCEPT ![member_path] = r.text]

MemberPath(member_root) ==
    IF files[member_root] = Dir THEN MemberToml(member_root) ELSE member_root

MainProcessMember ==
    /\ main_run.pc = "members"
    /\ MemberProcessed(Head(main_run.todo), MemberPath(Head(main_run.todo)),
                       _update_member_version(files[MemberPath(Head(main_run.todo))],
                                              main_run.version))
    /\ MainFrame

\* One turn of the loop over the Markdown files: _update_markdown_versions
\* inside the try block that turns the caught exceptions into a warning.
MarkdownProcessed(md_path, r) ==
    LET next == [main_run EXCEPT !.pc = IF Tail(main_run.md_todo) = <<>> THEN "return"
                                        ELSE "markdown",
                                 !.md_todo = Tail(main_run.md_todo),
                                 !.md_done = Append(main_run.md_done, md_path)]
    IN  IF files[md_path] = Missing
        THEN /\ main_run' = next
             /\ UNCHANGED files
        ELSE IF r.raised \in Caught
        THEN /\ main_run' = [next EXCEPT !.md_failed = Append(main_run.md_failed, md_path)]
             /\ UNCHANGED files
        ELSE IF r.raised # ""
        THEN /\ main_run' = [main_run EXCEPT
                                 !.pc = "crashed", !.raised = r.raised,
                                 !.md_failed = Append(main_run.md_failed, md_path)]
             /\ UNCHANGED files
        ELSE /\ main_run' = next
             /\ files' = [files EXCEPT ![md_path] = r.text]

MainMarkdown ==
    /\ main_run.pc = "markdown"
    /\ MarkdownProcessed(Head(main_run.md_todo),
                         MarkdownText(files[Head(main_run.md_todo)], main_run.version))
    /\ MainFrame

\* return 0 if not had_error else 1
MainReturn ==
    /\ main_run.pc = "return"
    /\ main_run' = Return(IF ~main_run.had_error THEN 0 ELSE 1)
    /\ UNCHANGED files
    /\ MainFrame

NextMain ==
    \/ MainValidate
    \/ MainParseWorkspace
    \/ MainSetWorkspace
    \/ MainResolveMembers
    \/ MainProcessMember
    \/ MainMarkdown
    \/ MainReturn

SpecMain == InitMain /\ [][NextMain]_vars

\* Specification of the pre-flight patch: the interpreter imports
\* sitecustomize, then the publish command calls the patched runner while
\* lading.toml may be edited.
NoCall == [root |-> "", subcommand |-> "", extra_args |-> <<>>, file |-> NoFile,
           raised |-> "", command |-> <<>>, exit_code |-> 0]

InitPreflight ==
    /\ \E f \in LadingFiles, g \in OtherLadingFiles, env \in Roots \cup {""} :
          /\ files = [p \in {ConfigPath(r) : r \in Roots} |->
                        IF p = ConfigPath("r1") THEN f ELSE g]
          /\ preflight = [pc |-> "import", env |-> env, cache |-> <<>>,
                          import_raised |-> "", calls |-> 0, last |-> NoCall]
    /\ writer = NoWriter
    /\ main_run = NoRun
    /\ DepIdle
    /\ FenceIdle
    /\ TomlIdle

PreflightFrame == UNCHANGED <<writer, main_run, depVars, fenceVars, tomlVars>>

\* The module-level calls: the patches are installed, then
\* _warm_cache_with_environment loads the excludes of LADING_WORKSPACE_ROOT
\* when it is set.
ImportSitecustomize ==
    /\ preflight.pc = "import"
    /\ LET l == IF preflight.env = ""
                THEN [raised |-> "", value |-> <<>>, cache |-> preflight.cache]
                ELSE _load_preflight_test_excludes(files, preflight.cache, preflight.env)
       IN  preflight' = [preflight EXCEPT !.pc = "patched", !.cache = l.cache,
                                          !.import_raised = l.raised]
    /\ UNCHANGED files
    /\ PreflightFrame

\* One call of the patched _run_cargo_preflight, the runner's exit code
\* being any.
RunCargoPreflight ==
    /\ preflight.pc = "patched"
    /\ preflight.calls < MaxCalls
    /\ \E root \in Roots, subcommand \in Subcommands, extra_args \in ExtraArgs,
          exit_code \in {0, 1} :
          LET r == _patched_run_cargo_preflight(files, preflight.cache, root, subcommand,
                                                extra_args)
          IN  preflight' =
                  [preflight EXCEPT
                      !.cache = r.cache,
                      !.calls = preflight.calls + 1,
                      !.last = [root |-> root, subcommand |-> subcommand,
                                extra_args |-> extra_args, file |-> files[ConfigPath(root)],
                                raised |-> IF r.raised # "" THEN r.raised
                                           ELSE IF exit_code # 0 THEN "PublishPreflightError"
                                           ELSE "",
                                command |-> r.command,
                                exit_code |-> IF r.raised # "" THEN 0 ELSE exit_code]]
    /\ UNCHANGED files
    /\ PreflightFrame

\* The environment: lading.toml of the first root is rewritten between two
\* calls of the runner.
EditLadingConfig ==
    /\ preflight.pc = "patched"
    /\ preflight.calls < MaxCalls
    /\ \E f \in LadingFiles :
          /\ f # files[ConfigPath("r1")]
          /\ files' = [files EXCEPT ![ConfigPath("r1")] = f]
    /\ UNCHANGED preflight
    /\ PreflightFrame

NextPreflight ==
    \/ ImportSitecustomize
    \/ RunCargoPreflight
    \/ EditLadingConfig

SpecPreflight == InitPreflight /\ [][NextPreflight]_vars

\* ------------------------------------------------------------ claims

\* The trailing newline run of a text: its longest suffix made of LF and
\* CR LF sequences.
TrailingRun(s) ==
    LET I == {i \in 1..(Len(s) + 1) : InCRLFStar(Drop(s, i))}
    IN  Drop(s, Min(I))

\* The three dependency keys of d, where present, hold tables.
HoldsTables(d) == \A k \in 1..Len(Tables) : Get(d.body, Tables[k]).kind \in {"None", "Table"}

\* The entry of name in the table under Tables[k] of d; None when there is none.
DepEntry(d, k, name) ==
    LET t == Get(d.body, Tables[k])
    IN  IF t.kind = "Table" THEN Get(t.body, name) ELSE None

\* The expected text of a rewritten version: the first character of old
\* when it is a caret or a tilde, then V.
PrefixPlus(old, V) ==
    (IF old # <<>> /\ old[1] \in {"^", "~"} THEN <<old[1]>> ELSE <<>>) \o V

\* C1: for every document, in each of the three dependency tables where
\* the named dependency is a string, the update makes the entry serialize as
\* its quote, the original caret or tilde if it had one, V, and its quote:
\* prefix + V, or V alone for any other first character.  Every table
\* occurrence is updated, whatever the other tables hold.
C1_StringBecomesPrefixPlusV ==
    Len(doc_log) >= 2 =>
        \A k \in 1..Len(Tables) :
            LET e0 == DepEntry(doc_log[1], k, dep_name)
                e1 == DepEntry(doc_log[2], k, dep_name)
            IN  e0.kind = "String" =>
                    ValueText(e1) = <<e0.quote>> \o PrefixPlus(e0.text, new_version)
                                    \o <<e0.quote>>

IsWorkspaceEntry(e) ==
    /\ IsMapping(e)
    /\ Get(e.body, "workspace").kind = "Bool"
    /\ Get(e.body, "workspace").text = <<"True">>

\* C2: a dependency entry that is a sub-mapping with workspace = true is the
\* same before and after every call: no version key is added to it and an
\* existing one is not changed.
C2_WorkspaceEntryUntouched ==
    \A n \in 1..Len(doc_log) : \A k \in 1..Len(Tables) :
        LET e0 == DepEntry(doc_log[1], k, dep_name)
        IN  IsWorkspaceEntry(e0) => DepEntry(doc_log[n], k, dep_name) = e0

\* C2 witness: a call returned on a document whose named dependency is a
\* workspace entry without a version key.
C2_Witness ==
    /\ Len(doc_log) >= 2
    /\ raised = ""
    /\ \E k \in 1..Len(Tables) :
          /\ IsWorkspaceEntry(DepEntry(doc_log[1], k, dep_name))
          /\ "version" \notin Keys(DepEntry(doc_log[1], k, dep_name).body)

\* C4 as claimed: for every version text V, V beginning with a caret or a
\* tilde included, the document serializes the same after two calls as
\* after one.
C4_IdempotentForEveryV ==
    Len(doc_log) >= 3 => dumps(doc_log[3]) = dumps(doc_log[2])

\* C4 amended: for every version text V that does not begin with a caret or
\* a tilde, the document serializes the same after two calls as after one.
C4_IdempotentForPlainV ==
    (Len(doc_log) >= 3 /\ new_version[1] \notin {"^", "~"}) =>
        dumps(doc_log[3]) = dumps(doc_log[2])

\* C4 witness: two calls with a plain V were made and the first one changed
\* the serialized document.
C4_Witness ==
    /\ Len(doc_log) >= 3
    /\ new_version[1] \notin {"^", "~"}
    /\ dumps(doc_log[2]) # dumps(doc_log[1])
    /\ dumps(doc_log[3]) = dumps(doc_log[2])

\* None of the three dependency tables of d contains name: each is absent,
\* empty or holds other keys.
LacksDependency(d, name) ==
    \A k \in 1..Len(Tables) :
        LET t == Get(d.body, Tables[k])
        IN  t.kind \in {"None", "Table"} /\ name \notin Keys(t.body)

KeysInOrder(body) == [i \in 1..Len(body) |-> body[i].key]

Siblings(body) == SelectSeq(body, LAMBDA e : e.key # "version")

\* The entry e1 differs from e0 in its version text at most.
OnlyVersionTextChanged(e0, e1) ==
    CASE e0.kind = "String" -> e1 = [e0 EXCEPT !.orig = e1.orig]
      [] IsMapping(e0) ->
            /\ [e1 EXCEPT !.body = <<>>] = [e0 EXCEPT !.body = <<>>]
            /\ Siblings(e1.body) = Siblings(e0.body)
            /\ LET v0 == Get(e0.body, "version")
                   v1 == Get(e1.body, "version")
               IN  v0.kind = "String" =>
                       /\ v1 = [v0 EXCEPT !.orig = v1.orig]
                       /\ KeysInOrder(e1.body) = KeysInOrder(e0.body)
      [] OTHER -> e1.comment = e0.comment /\ e1.trail = e0.trail

\* C6: a dependency update changes the version text only: a string entry
\* keeps its quote style and trailing comment, a sub-mapping entry keeps
\* every sibling field, and no other key of a table or of the document is
\* added, removed or altered.
C6_OnlyVersionTextChanges ==
    Len(doc_log) >= 2 =>
        LET d0 == doc_log[1]
            d1 == doc_log[2]
        IN  /\ KeysInOrder(d1.body) = KeysInOrder(d0.body)
            /\ \A i \in 1..Len(d0.body) :
                  LET t0 == d0.body[i].item
                      t1 == d1.body[i].item
                  IN  /\ [t1 EXCEPT !.body = <<>>] = [t0 EXCEPT !.body = <<>>]
                      /\ KeysInOrder(t1.body) = KeysInOrder(t0.body)
                      /\ \A j \in 1..Len(t0.body) :
                            IF t0.body[j].key = dep_name
                            THEN OnlyVersionTextChanged(t0.body[j].item, t1.body[j].item)
                            ELSE t1.body[j] = t0.body[j]

\* C6 witness: the call rewrote a single-quoted string entry that carries a
\* comment in one table and a sub-mapping with a sibling field in another.
C6_Witness ==
    /\ Len(doc_log) >= 2
    /\ HoldsTables(doc_log[1])
    /\ dumps(doc_log[2]) # dumps(doc_log[1])
    /\ \E j, k \in 1..Len(Tables) :
          /\ DepEntry(doc_log[1], j, dep_name).kind = "String"
          /\ DepEntry(doc_log[1], j, dep_name).quote = SQ
          /\ DepEntry(doc_log[1], j, dep_name).comment # <<>>
          /\ DepEntry(doc_log[2], j, dep_name).orig = <<"~">> \o new_version
          /\ IsMapping(DepEntry(doc_log[1], k, dep_name))
          /\ "features" \in Keys(DepEntry(doc_log[1], k, dep_name).body)
          /\ DepEntry(doc_log[2], k, dep_name) # DepEntry(doc_log[1], k, dep_name)

\* StartsWith / EndsWith on texts.
StartsWith(s, p) == Len(s) >= Len(p) /\ SubSeq(s, 1, Len(p)) = p

EndsWith(s, p) == Len(s) >= Len(p) /\ Drop(s, Len(s) - Len(p) + 1) = p

\* A fence token matches lg when the first whitespace-delimited word of its
\* info string is lg, case-insensitively; a fence without a word never does.
IsMatchingFence(t, lg) ==
    /\ t.type = "fence"
    /\ split(t.info) # <<>>
    /\ lower(split(t.info)[1]) = lower(<<lg>>)

MatchingFences(text, lg) == SelectSeq(md_parse(text), LAMBDA t : IsMatchingFence(t, lg))

\* The source lines ls with the span of each fence of M replaced by the
\* corresponding text of texts.
RECURSIVE Stitch(_, _, _, _)
Stitch(ls, M, texts, last) ==
    IF M = <<>> THEN Concat(SubSeq(ls, last + 1, Len(ls)))
    ELSE Concat(SubSeq(ls, last + 1, Head(M).map[1])) \o Head(texts)
         \o Stitch(ls, Tail(M), Tail(texts), Head(M).map[2])

\* C3: replace_fences copies every source line outside the span of a
\* matching fence through unchanged and in order, non-matching fences (other
\* tag, or no tag) included; a text with no matching fence comes back
\* unchanged, without raising and without a call of the transform.
C3_OutsideLinesKept ==
    md_result.done =>
        LET M == MatchingFences(md_text, lang)
        IN  /\ md_result.raised = ""
            /\ Len(md_result.fences) = Len(M)
            /\ md_result.text =
                   Stitch(splitlines(md_text), M,
                          [k \in 1..Len(M) |-> md_result.fences[k].text], 0)
            /\ (M = <<>> => md_result.text = md_text /\ md_result.calls = 0)

\* The text left of the fence marker on an opening line.
LeadingIndent(l) == SubSeq(l, 1, CountRun(l, SP))

C9_BodyKeepsNewlineRun ==
    tok_result.done => TrailingRun(tok_result.new_body) = TrailingRun(tok.content)

CarriesVersion(e, V) ==
    LET v == IF IsMapping(e) THEN Get(e.body, "version") ELSE e
    IN  v.kind = "String" /\ v.orig \in {V, <<"^">> \o V, <<"~">> \o V}

\* C10: for every TOML snippet with ortho_config in a dependency table,
\* replace_version_in_toml returns a text that ends in the very newline run
\* the snippet ended in and whose ortho_config entries carry the new version.
C10_SuffixKeptAndVersionCarried ==
    LET p == parse(snippet)
        K == {k \in 1..Len(Tables) : DepEntry(p.doc, k, "ortho_config").kind # "None"}
    IN  (toml_result.done /\ p.raised = "" /\ K # {}) =>
            /\ toml_result.raised = ""
            /\ TrailingRun(toml_result.text) = TrailingRun(snippet)
            /\ LET q == parse(toml_result.text)
               IN  /\ q.raised = ""
                   /\ \A k \in K : CarriesVersion(DepEntry(q.doc, k, "ortho_config"),
                                                  new_version)

\* The package sub-table of the workspace table of d; None when d has none.
WorkspacePackage(d) ==
    LET w == Get(d.body, "workspace")
    IN  IF IsMapping(w) /\ IsMapping(Get(w.body, "package")) THEN Get(w.body, "package") ELSE None

\* The top-level package table of d; None when d has none.
TopPackage(d) ==
    IF IsMapping(Get(d.body, "package")) THEN Get(d.body, "package") ELSE None

WithoutVersion(t) == [t EXCEPT !.body = SelectSeq(@, LAMBDA e : e.key # "version")]

\* The version field of table t is the string V.
VersionIs(t, V) ==
    LET v == Get(t.body, "version")
    IN  v.kind = "String" /\ v.text = V /\ ValueText(v) = <<DQ>> \o V \o <<DQ>>

\* C12: with a workspace table that holds a package sub-table,
\* workspace.package.version becomes V and the rest of the document, a
\* top-level package table included, stays; otherwise with a top-level
\* package table, package.version becomes V and the rest stays; with
\* neither, the document stays as it is.  No case raises.
C12_PackageVersionSet ==
    Len(doc_log) >= 2 =>
        LET d0 == doc_log[1]
            d1 == doc_log[2]
            w0 == Get(d0.body, "workspace")
            w1 == Get(d1.body, "workspace")
        IN  /\ raised = ""
            /\ IF WorkspacePackage(d0).kind # "None"
               THEN /\ VersionIs(WorkspacePackage(d1), new_version)
                    /\ SetItem(d1, "workspace",
                               SetItem(w1, "package", WithoutVersion(WorkspacePackage(d1))))
                       = SetItem(d0, "workspace",
                                 SetItem(w0, "package", WithoutVersion(WorkspacePackage(d0))))
               ELSE IF TopPackage(d0).kind # "None"
               THEN /\ VersionIs(TopPackage(d1), new_version)
                    /\ SetItem(d1, "package", WithoutVersion(TopPackage(d1)))
                       = SetItem(d0, "package", WithoutVersion(TopPackage(d0)))
               ELSE d1 = d0

\* C11: whatever step the process has reached or was interrupted at, the
\* file being updated, manifest or Markdown, holds its complete old content
\* or its complete new content.
C11_TargetOldOrNew ==
    writer.pc # "idle" =>
        \/ files[writer.path] = writer.old
        \/ /\ writer.pc \in {"computed", "writing", "closed", "done", "interrupted"}
           /\ files[writer.path] = writer.text

\* C13: when the transform returns the body as it is, every matching fence
\* is emitted exactly as its lines stand in the source, and the text
\* returned is the input text.
C13_IdentityTransformKeepsText ==
    (md_result.done /\ replace_fn.kind = "identity") =>
        /\ \A i \in 1..Len(md_result.fences) :
              LET f == md_result.fences[i]
              IN  f.text = Concat(SubSeq(splitlines(md_text), f.start + 1, f.end))
        /\ md_result.raised = "" => md_result.text = md_text

\* C14: on every parsed document, whatever values stand under workspace,
\* package and the three dependency keys, a call of either updater returns
\* without raising.
C14_UpdaterNeverRaises == raised = ""

\* C15: when main has ended, it has returned 0 exactly when
\* the arguments were valid, the workspace manifest was parsed and written
\* and no member update failed; once the workspace manifest is written,
\* every resolved member has been attempted and both Markdown files have
\* been processed, whatever failed on the way.
C15_ExitCodeAndCoverage ==
    main_run.pc \in {"returned", "crashed"} =>
        /\ (main_run.exit_code = 0) <=>
               (Len(main_run.argv) = 2 /\ main_run.written /\ main_run.failed = <<>>)
        /\ main_run.written =>
               /\ main_run.attempted = main_run.resolved
               /\ main_run.md_done = MdPaths

\* The entries of test_exclude: the value itself when it is a string, the
\* items of a list, the keys of a table.
Entries(value) ==
    CASE value.t = "str"  -> <<value>>
      [] value.t = "list" -> value.v
      [] value.t = "dict" -> [i \in 1..Len(value.v) |-> StrV(value.v[i].k)]
      [] OTHER            -> <<>>

IsWhitespaceOnly(chars) == \A i \in 1..Len(chars) : chars[i] \in PyWhitespace

Unpadded(chars) ==
    IF IsWhitespaceOnly(chars) THEN <<>>
    ELSE LET first == Min({i \in 1..Len(chars) : chars[i] \notin PyWhitespace})
             last == CHOOSE i \in 1..Len(chars) :
                        /\ chars[i] \notin PyWhitespace
                        /\ \A j \in (i + 1)..Len(chars) : chars[j] \in PyWhitespace
         IN  SubSeq(chars, first, last)

\* The crates the file configures: the non-empty stripped string entries of
\* [preflight].test_exclude, none when the file is missing, is no TOML or
\* has no preflight table.
ConfiguredExcludes(file) ==
    LET preflight_table == IF file.kind = "toml"
                           THEN DictGet(file.config, "preflight", NoneV) ELSE NoneV
        value == IF preflight_table.t = "dict"
                 THEN DictGet(preflight_table, "test_exclude", NoneV) ELSE NoneV
        strings == SelectSeq(Entries(value), LAMBDA e : e.t = "str" /\ ~IsWhitespaceOnly(e.v))
    IN  [i \in 1..Len(strings) |-> Unpadded(strings[i].v)]

\* C16: every call of the patched runner hands cargo the subcommand, the
\* base arguments and then, for subcommand test only, --exclude <crate> once
\* per configured crate of the lading.toml of the call's workspace root, in
\* configured order; the call does not fail before the runner is called.
C16_ExcludesOfConfiguredCrates ==
    preflight.calls > 0 =>
        LET call == preflight.last
            crates == IF call.subcommand = "test" THEN ConfiguredExcludes(call.file)
                      ELSE <<>>
        IN  /\ call.raised \in {"", "PublishPreflightError"}
            /\ call.command =
                   <<<<"cargo">>, <<call.subcommand>>>>
                   \o (IF call.extra_args = <<>> THEN DefaultArgs ELSE call.extra_args)
                   \o Concat([i \in 1..Len(crates) |-> <<<<"--exclude">>, crates[i]>>])

====
